---- MODULE Spec2Model ----
(***************************************************************************)
(* Model of the local transaction workbench of ckb-cli                     *)
(* (src/subcommands/local/tx.rs, LocalTxSubCommand::process).              *)
(*                                                                         *)
(* The handlers of tx.rs are the actions.  The ckb_sdk managers they call  *)
(* (TransactionManager, CellInputManager, CellManager, KeyManager,         *)
(* with_rocksdb) are modelled from the specification of the workbench.     *)
(***************************************************************************)
EXTENDS Integers, Sequences, FiniteSets, TLC

VARIABLES
    txdb,   \* staged-transaction table: a set of entries [key, value]
    keys,   \* key registry: the set of stored key names
    last,   \* the last command run and what it returned
    run     \* the commands in progress, where they are followed step by step

vars == <<txdb, keys, last, run>>

----------------------------------------------------------------------------
(* Bounds *)

\* most records the staged-transaction table holds
MaxStaged == 2

----------------------------------------------------------------------------
(* Text helpers: a string is a sequence of one-character strings *)

Rep(c, n) == [i \in 1..n |-> c]

\* width of an H256 in hex characters
HashHexLen == 64

HexLower ==
    <<"0", "1", "2", "3", "4", "5", "6", "7", "8", "9",
      "a", "b", "c", "d", "e", "f">>

HexUpper ==
    <<"0", "1", "2", "3", "4", "5", "6", "7", "8", "9",
      "A", "B", "C", "D", "E", "F">>

HexDigits == {HexLower[i] : i \in 1..16} \cup {HexUpper[i] : i \in 1..16}

\* value of a hex character; upper and lower case decode alike
HexVal(c) == (CHOOSE i \in 1..16 : HexLower[i] = c \/ HexUpper[i] = c) - 1

DecDigits == {"0", "1", "2", "3", "4", "5", "6", "7", "8", "9"}

DecVal(c) ==
    CASE c = "0" -> 0 [] c = "1" -> 1 [] c = "2" -> 2 [] c = "3" -> 3
      [] c = "4" -> 4 [] c = "5" -> 5 [] c = "6" -> 6 [] c = "7" -> 7
      [] c = "8" -> 8 [] c = "9" -> 9

\* str::split(sep): the parts between the separators, empty parts kept
Split(s, sep) ==
    LET seps == {i \in 1..Len(s) : s[i] = sep}
        n    == Cardinality(seps)
        pos(k) ==
            IF k = 0 THEN 0
            ELSE IF k = n + 1 THEN Len(s) + 1
            ELSE CHOOSE p \in seps : Cardinality({q \in seps : q < p}) = k - 1
    IN  [k \in 1..(n + 1) |-> SubSeq(s, pos(k - 1) + 1, pos(k) - 1)]

\* a strip that knows the lower-case prefix only
StripHexPrefixLowerOnly(s) ==
    IF Len(s) >= 2 /\ s[1] = "0" /\ s[2] = "x"
    THEN SubSeq(s, 3, Len(s))
    ELSE s

\* the optional 0x / 0X prefix is dropped once
StripHexPrefix(s) ==
    IF Len(s) >= 2 /\ s[1] = "0" /\ s[2] \in {"x", "X"}
    THEN SubSeq(s, 3, Len(s))
    ELSE s

\* H256::from_hex_str: exactly HashHexLen hex characters
FromHexStr(s) ==
    IF Len(s) = HashHexLen /\ \A i \in 1..Len(s) : s[i] \in HexDigits
    THEN [err |-> "none", val |-> [i \in 1..Len(s) |-> HexVal(s[i])]]
    ELSE [err |-> "InvalidHash", val |-> <<>>]

\* numbers that may exceed 31 bits are digit sequences, most significant
\* first, without leading zeros
RECURSIVE Normalize(_)
Normalize(ds) ==
    IF Len(ds) > 1 /\ ds[1] = 0 THEN Normalize(Tail(ds)) ELSE ds

RECURSIVE LexLeq(_, _)
LexLeq(a, b) ==
    IF a = <<>> THEN TRUE
    ELSE IF a[1] # b[1] THEN a[1] < b[1]
    ELSE LexLeq(Tail(a), Tail(b))

DigitsLeq(a, b) ==
    LET x == Normalize(a)
        y == Normalize(b)
    IN  IF Len(x) # Len(y) THEN Len(x) < Len(y) ELSE LexLeq(x, y)

\* u32::MAX = 4294967295
U32MaxDigits == <<4, 2, 9, 4, 9, 6, 7, 2, 9, 5>>

\* u64::MAX = 18446744073709551615
U64MaxDigits == <<1, 8, 4, 4, 6, 7, 4, 4, 0, 7, 3, 7, 0, 9, 5, 5, 1, 6, 1, 5>>

\* str::parse::<u32>: an optional '+', then one or more decimal digits,
\* the value at most u32::MAX
ParseU32(s) ==
    LET body == IF Len(s) >= 1 /\ s[1] = "+" THEN Tail(s) ELSE s
        ds   == [i \in 1..Len(body) |-> DecVal(body[i])]
    IN  IF   /\ Len(body) >= 1
             /\ \A i \in 1..Len(body) : body[i] \in DecDigits
             /\ DigitsLeq(ds, U32MaxDigits)
        THEN [err |-> "none", val |-> Normalize(ds)]
        ELSE [err |-> "InvalidIndex", val |-> <<>>]

\* OutPoint::new_cell(tx_hash, index)
NewCell(tx_hash, index) == [tx_hash |-> tx_hash, index |-> index]

NoOutPoint == [tx_hash |-> <<>>, index |-> <<>>]

\* a closure that reads the index before the hash
ParseDepIndexFirst(dep_str) ==
    LET parts == Split(dep_str, "-")
    IN  IF Len(parts) # 2
        THEN [err |-> "MalformedDependency", val |-> NoOutPoint]
        ELSE
            LET tx_hash == FromHexStr(StripHexPrefix(parts[1]))
                index   == ParseU32(parts[2])
            IN  IF index.err # "none"
                THEN [err |-> index.err, val |-> NoOutPoint]
                ELSE IF tx_hash.err # "none"
                THEN [err |-> tx_hash.err, val |-> NoOutPoint]
                ELSE [err |-> "none", val |-> NewCell(tx_hash.val, index.val)]

\* the closure applied to one dependency token
ParseDep(dep_str) ==
    LET parts == Split(dep_str, "-")
    IN  IF Len(parts) # 2
        THEN [err |-> "MalformedDependency", val |-> NoOutPoint]
        ELSE
            LET tx_hash == FromHexStr(StripHexPrefix(parts[1]))
                index   == ParseU32(parts[2])
            IN  IF tx_hash.err # "none"
                THEN [err |-> tx_hash.err, val |-> NoOutPoint]
                ELSE IF index.err # "none"
                THEN [err |-> index.err, val |-> NoOutPoint]
                ELSE [err |-> "none", val |-> NewCell(tx_hash.val, index.val)]

\* collect() into Result<Vec<OutPoint>, String>: the first failing token
\* decides the error
RECURSIVE ParseDeps(_)
ParseDeps(tokens) ==
    IF tokens = <<>> THEN [err |-> "none", val |-> <<>>]
    ELSE
        LET head == ParseDep(Head(tokens))
        IN  IF head.err # "none" THEN [err |-> head.err, val |-> <<>>]
            ELSE
                LET rest == ParseDeps(Tail(tokens))
                IN  IF rest.err # "none" THEN rest
                    ELSE [err |-> "none", val |-> <<head.val>> \o rest.val]

----------------------------------------------------------------------------
(* Registries, populated before assembly *)

\* name -> CellInput table
InputRegistry ==
    [name \in {"in1", "in2"} |->
        [previous_output |-> IF name = "in1" THEN "cellA" ELSE "cellB",
         since |-> 0]]

\* name -> CellOutput table
OutputRegistry ==
    [name \in {"out1"} |-> [capacity |-> 100, lock |-> "lockA"]]

\* every key that can ever be stored
AllKeys == {"K1"}

\* the identity derivable from a key
KeyLock(k) == IF k = "K1" THEN "lockA" ELSE "lockZ"

\* the lock condition guarding the cell an input consumes, as the remote
\* node reports it
LiveCellLock(input) ==
    IF input.previous_output = "cellA" THEN "lockA" ELSE "lockB"

\* CellInputManager::get / CellManager::get
RegistryGet(registry, name) ==
    IF name \in DOMAIN registry
    THEN [err |-> "none", val |-> <<registry[name]>>]
    ELSE [err |-> "UnknownReference", val |-> <<>>]

----------------------------------------------------------------------------
(* Transactions and the staged-transaction table *)

\* Witness::new()
EmptyWitness == <<>>

\* the unlock proof a key produces for an input
SignedWitness(k) == <<k>>

\* a hash that also covers the witnesses
TxHashWithWitnesses(tx) == <<tx.deps, tx.inputs, tx.outputs, tx.witnesses>>

\* tx.hash(): derived from the content, witnesses excluded
TxHash(tx) == <<tx.deps, tx.inputs, tx.outputs>>

NoHash == <<>>

TableKeys(db) == {e.key : e \in db}

\* the store's put: the value of a key is replaced
Put(db, k, v) == {e \in db : e.key # k} \cup {[key |-> k, value |-> v]}

\* the store's delete
Delete(db, k) == {e \in db : e.key # k}

\* TransactionManager::get: <<tx>> when staged, <<>> when not
TM_get(db, h) ==
    LET hit == {e \in db : e.key = h}
    IN  IF hit = {} THEN <<>> ELSE <<(CHOOSE e \in hit : TRUE).value>>

\* TransactionManager::add: persist under the transaction's hash
TM_add(db, tx) == Put(db, TxHash(tx), tx)

\* the witness of one input under a key set
WitnessFor(input, ks) ==
    LET match == {k \in ks : KeyLock(k) = LiveCellLock(input)}
    IN  IF match = {} THEN EmptyWitness
        ELSE SignedWitness(CHOOSE k \in match : TRUE)

\* a signing that keeps a stored witness where no key matches
TM_set_witnesses_by_keys_merge(db, h, ks, fault) ==
    LET got == TM_get(db, h)
    IN  IF got = <<>>
        THEN [status |-> "NotFound", tx |-> <<>>, db |-> db, writes |-> 0]
        ELSE IF Len(got[1].inputs) > 0 /\ fault = "remote"
        THEN [status |-> "RemoteUnavailable", tx |-> <<>>, db |-> db,
              writes |-> 0]
        ELSE IF fault = "sign_write"
        THEN [status |-> "StoreUnavailable", tx |-> <<>>, db |-> db,
              writes |-> 0]
        ELSE
            LET tx == [got[1] EXCEPT !.witnesses =
                          [i \in 1..Len(got[1].inputs) |->
                              IF WitnessFor(got[1].inputs[i], ks) = EmptyWitness
                              THEN got[1].witnesses[i]
                              ELSE WitnessFor(got[1].inputs[i], ks)]]
            IN  [status |-> "ok", tx |-> <<tx>>, db |-> TM_add(db, tx),
                 writes |-> 1]

\* a signing that persists the witnesses found so far when the remote
\* query fails
TM_set_witnesses_by_keys_partial(db, h, ks, fault) ==
    LET got == TM_get(db, h)
    IN  IF got = <<>>
        THEN [status |-> "NotFound", tx |-> <<>>, db |-> db, writes |-> 0]
        ELSE
            LET tx == [got[1] EXCEPT !.witnesses =
                          [i \in 1..Len(got[1].inputs) |->
                              WitnessFor(got[1].inputs[i], ks)]]
            IN  IF Len(got[1].inputs) > 0 /\ fault = "remote"
                THEN [status |-> "RemoteUnavailable", tx |-> <<>>,
                      db |-> TM_add(db, tx), writes |-> 1]
                ELSE IF fault = "sign_write"
                THEN [status |-> "StoreUnavailable", tx |-> <<>>, db |-> db,
                      writes |-> 0]
                ELSE [status |-> "ok", tx |-> <<tx>>, db |-> TM_add(db, tx),
                      writes |-> 1]

\* TransactionManager::set_witnesses_by_keys
TM_set_witnesses_by_keys(db, h, ks, fault) ==
    LET got == TM_get(db, h)
    IN  IF got = <<>>
        THEN [status |-> "NotFound", tx |-> <<>>, db |-> db, writes |-> 0]
        ELSE IF Len(got[1].inputs) > 0 /\ fault = "remote"
        THEN [status |-> "RemoteUnavailable", tx |-> <<>>, db |-> db,
              writes |-> 0]
        ELSE IF fault = "sign_write"
        THEN [status |-> "StoreUnavailable", tx |-> <<>>, db |-> db,
              writes |-> 0]
        ELSE
            LET tx == [got[1] EXCEPT !.witnesses =
                          [i \in 1..Len(got[1].inputs) |->
                              WitnessFor(got[1].inputs[i], ks)]]
            IN  [status |-> "ok", tx |-> <<tx>>, db |-> TM_add(db, tx),
                 writes |-> 1]

\* TransactionManager::remove
TM_remove(db, h) ==
    LET got == TM_get(db, h)
    IN  IF got = <<>>
        THEN [status |-> "NotFound", tx |-> <<>>, db |-> db]
        ELSE [status |-> "ok", tx |-> got, db |-> Delete(db, h)]

----------------------------------------------------------------------------
(* Inputs of the commands *)

GoodHex == Rep("a", HashHexLen)

TokGood     == GoodHex \o <<"-", "0">>
TokPrefixed == <<"0", "X">> \o Rep("A", HashHexLen) \o <<"-", "0">>
TokBadHex   == <<"z", "z", "-", "0">>
TokNoSep    == GoodHex
TokBadIndex == GoodHex \o <<"-", "x">>

\* the argument lists add is tried with: every combination that builds a
\* transaction, and the failing ones
AddArgs ==
    {[deps |-> d, inputs |-> i, outputs |-> <<"out1">>] :
        d \in {<<>>, <<TokGood>>}, i \in {<<>>, <<"in1">>, <<"in1", "in2">>}}
    \cup
    {[deps |-> <<TokPrefixed>>, inputs |-> <<"in1">>, outputs |-> <<"out1">>],
     [deps |-> <<TokBadHex>>, inputs |-> <<"in1">>, outputs |-> <<"out1">>],
     [deps |-> <<TokNoSep>>, inputs |-> <<"in1">>, outputs |-> <<"out1">>],
     [deps |-> <<TokBadIndex>>, inputs |-> <<"in1">>, outputs |-> <<"out1">>],
     [deps |-> <<TokGood, TokBadHex>>, inputs |-> <<>>, outputs |-> <<"out1">>],
     [deps |-> <<>>, inputs |-> <<"nope">>, outputs |-> <<"out1">>],
     [deps |-> <<>>, inputs |-> <<"in1", "nope">>, outputs |-> <<"out1">>],
     [deps |-> <<>>, inputs |-> <<"in1">>, outputs |-> <<"gone">>],
     [deps |-> <<TokGood>>, inputs |-> <<"in1", "in2">>,
      outputs |-> <<"out1", "gone">>],
     [deps |-> <<TokBadHex>>, inputs |-> <<"nope">>, outputs |-> <<"gone">>]}

\* the texts a dependency token is put together from: the prefix of the
\* hash part, the hash part, and what follows it
DepPrefixes == {<<>>, <<"0", "x">>, <<"0", "X">>, <<"0", "x", "0", "X">>}

MixedHex ==
    [i \in 1..HashHexLen |->
        IF i % 4 = 1 THEN "3" ELSE IF i % 4 = 2 THEN "c"
        ELSE IF i % 4 = 3 THEN "E" ELSE "9"]

DepHashParts ==
    {GoodHex, Rep("A", HashHexLen), MixedHex,
     Rep("a", HashHexLen - 1), Rep("a", HashHexLen + 1),
     Rep("a", HashHexLen - 1) \o <<"g">>, <<"z", "z">>, <<>>}

DepIndexParts ==
    {<<"0">>, <<"1">>, <<"4", "2">>, <<"0", "0", "7">>, <<"+", "1">>,
     <<"4", "2", "9", "4", "9", "6", "7", "2", "9", "5">>,
     <<"4", "2", "9", "4", "9", "6", "7", "2", "9", "6">>,
     <<"9", "9", "9", "9", "9", "9", "9", "9", "9", "9", "9">>,
     <<>>, <<"x">>, <<"1", "x">>, <<"0", "x", "1">>}

\* no separator, one separator, two separators
DepTails ==
    {<<>>}
    \cup {<<"-">> \o i : i \in DepIndexParts}
    \cup {<<"-">> \o i \o <<"-", "1">> : i \in {<<"0">>, <<"x">>}}

DepTokens ==
    {p \o h \o t : p \in DepPrefixes, h \in DepHashParts, t \in DepTails}

\* the --deps lists the parser is tried with: every single token, and
\* pairs that put a second token behind an accepted or a rejected one
DepLists ==
    {<<t>> : t \in DepTokens}
    \cup {<<a, b>> :
            a \in {TokGood, TokPrefixed, TokBadHex, TokBadIndex, TokNoSep},
            b \in {TokGood, TokBadHex, TokBadIndex, TokNoSep,
                   MixedHex \o <<"-", "4", "2">>}}

\* the parse of each --deps list tried, computed once
ParsedDeps == [d \in {a.deps : a \in AddArgs} |-> ParseDeps(d)]

\* the step of a command that fails, if any: the write of add, the key
\* listing, the remote query of signing, the write of signing
SignFaults == {"none", "key_list", "remote", "sign_write"}

\* without the signing flag add has no signing step to fail
AddFaults(flag) ==
    IF flag THEN SignFaults \cup {"add_write"} ELSE {"none", "add_write"}

----------------------------------------------------------------------------
(* add *)

\* a witness list that ignores the number of inputs
EmptyWitnessesSingle(inputs) == <<EmptyWitness>>

\* inputs.iter().map(|_| Witness::new()).collect()
EmptyWitnesses(inputs) == [i \in 1..Len(inputs) |-> EmptyWitness]

\* TransactionBuilder::default().deps().inputs().outputs().witnesses().build()
BuildTx(deps, inputs, outputs, witnesses) ==
    [deps |-> deps, inputs |-> inputs, outputs |-> outputs,
     witnesses |-> witnesses]

\* name resolution that drops the names it does not find
ResolveNamesSkipUnknown(registry, names) ==
    LET known == SelectSeq(names, LAMBDA n : n \in DOMAIN registry)
    IN  [err |-> "none", val |-> [i \in 1..Len(known) |-> registry[known[i]]]]

\* each name looked up in its registry; the first unknown name fails all
ResolveNames(registry, names) ==
    IF \A i \in 1..Len(names) : RegistryGet(registry, names[i]).err = "none"
    THEN [err |-> "none",
          val |-> [i \in 1..Len(names) |->
                      RegistryGet(registry, names[i]).val[1]]]
    ELSE [err |-> "UnknownReference", val |-> <<>>]

\* a persist that keeps the record already staged under the hash
PersistIfAbsent(db, tx, fault) ==
    IF fault = "add_write"
    THEN [err |-> "StoreUnavailable", db |-> db, writes |-> 0]
    ELSE IF TM_get(db, TxHash(tx)) # <<>>
    THEN [err |-> "none", db |-> db, writes |-> 0]
    ELSE [err |-> "none", db |-> TM_add(db, tx), writes |-> 1]

\* with_rocksdb(|db| TransactionManager::new(db).add(&tx))
Persist(db, tx, fault) ==
    IF fault = "add_write"
    THEN [err |-> "StoreUnavailable", db |-> db, writes |-> 0]
    ELSE [err |-> "none", db |-> TM_add(db, tx), writes |-> 1]

\* a signing step that hands over an empty key list
SignStepNoKeys(db, ks, h, fault) ==
    IF fault = "key_list"
    THEN [status |-> "StoreUnavailable", tx |-> <<>>, db |-> db, writes |-> 0]
    ELSE TM_set_witnesses_by_keys(db, h, {}, fault)

\* with_rocksdb(|db| { keys = KeyManager::new(db).list()?;
\*   TransactionManager::new(db).set_witnesses_by_keys(hash, &keys, rpc) })
SignStep(db, ks, h, fault) ==
    IF fault = "key_list"
    THEN [status |-> "StoreUnavailable", tx |-> <<>>, db |-> db, writes |-> 0]
    ELSE TM_set_witnesses_by_keys(db, h, ks, fault)

\* the signed transaction dropped: the unsigned one is rendered
AddReturnUnsigned(unsigned, signed, set_witnesses_by_keys) == unsigned

\* the transaction add renders: tx is reassigned by the signing step
AddReturn(unsigned, signed, set_witnesses_by_keys) ==
    IF set_witnesses_by_keys THEN signed ELSE unsigned

AddFailed(status, db, h, writes) ==
    [status |-> status, tx |-> <<>>, hash |-> h, db |-> db, writes |-> writes]

\* the add handler once the transaction is built: persist, then sign
AddBuilt(db, ks, tx, flag, fault) ==
    LET stored == Persist(db, tx, fault)
    IN  IF stored.err # "none"
        THEN AddFailed(stored.err, stored.db, TxHash(tx), stored.writes)
        ELSE IF ~flag
        THEN [status |-> "ok", tx |-> <<tx>>, hash |-> TxHash(tx),
              db |-> stored.db, writes |-> stored.writes]
        ELSE
        LET signed == SignStep(stored.db, ks, TxHash(tx), fault)
        IN  IF signed.status # "ok"
            THEN AddFailed(signed.status, signed.db, TxHash(tx),
                           stored.writes + signed.writes)
            ELSE [status |-> "ok",
                  tx |-> AddReturn(<<tx>>, signed.tx, flag),
                  hash |-> TxHash(tx), db |-> signed.db,
                  writes |-> stored.writes + signed.writes]

\* the add handler from the parsed dependencies on
AddParsed(db, ks, deps, input_names, output_names, flag, fault) ==
    IF deps.err # "none" THEN AddFailed(deps.err, db, NoHash, 0)
    ELSE
    LET inputs == ResolveNames(InputRegistry, input_names)
    IN  IF inputs.err # "none" THEN AddFailed(inputs.err, db, NoHash, 0)
    ELSE
    LET outputs == ResolveNames(OutputRegistry, output_names)
    IN  IF outputs.err # "none" THEN AddFailed(outputs.err, db, NoHash, 0)
    ELSE AddBuilt(db, ks,
                  BuildTx(deps.val, inputs.val, outputs.val,
                          EmptyWitnesses(inputs.val)),
                  flag, fault)

\* the add handler, from the argument lists to the table and the result
AddOutcome(db, ks, dep_strs, input_names, output_names, flag, fault) ==
    AddParsed(db, ks, ParsedDeps[dep_strs], input_names, output_names,
              flag, fault)

\* what a command leaves in `last`
Ret(op, h, flag, status, tx, prior, writes, out) ==
    [op |-> op, hash |-> h, flag |-> flag, status |-> status, tx |-> tx,
     prior |-> prior, writes |-> writes, out |-> out]

\* the table and the result after add
AddDone(r, flag) ==
    /\ Cardinality(r.db) <= MaxStaged
    /\ txdb' = r.db
    /\ keys' = keys
    /\ last' = Ret("add", r.hash, flag, r.status, r.tx,
                   TM_get(txdb, r.hash), r.writes, <<>>)
    /\ run' = run

AddCmd(dep_strs, input_names, output_names, flag, fault) ==
    AddDone(AddOutcome(txdb, keys, dep_strs, input_names, output_names,
                       flag, fault), flag)

----------------------------------------------------------------------------
(* set-witness, set-witnesses-by-keys, show, remove *)

\* every hash a --tx-hash argument is tried with: those of the
\* transactions add can build
HashArgs ==
    {AddOutcome({}, {}, a.deps, a.inputs, a.outputs, FALSE, "none").hash :
        a \in AddArgs} \ {NoHash}

\* ("set-witness", Some(_m)) => Ok("null")
SetWitnessCmd(h) ==
    /\ UNCHANGED <<txdb, keys>>
    /\ last' = Ret("set-witness", h, FALSE, "ok", <<>>, TM_get(txdb, h), 0, <<>>)
    /\ run' = run

SetWitnessesByKeysCmd(h, fault) ==
    LET r == SignStep(txdb, keys, h, fault)
    IN  /\ txdb' = r.db
        /\ keys' = keys
        /\ last' = Ret("set-witnesses-by-keys", h, FALSE, r.status, r.tx,
                       TM_get(txdb, h), r.writes, <<>>)
        /\ run' = run

\* a show that takes the record out of the table
ShowCmdTakes(h) ==
    LET tx == TM_get(txdb, h)
    IN  /\ txdb' = TM_remove(txdb, h).db
        /\ keys' = keys
        /\ last' = Ret("show", h, FALSE,
                       IF tx = <<>> THEN "NotFound" ELSE "ok", tx, tx, 0, <<>>)
        /\ run' = run

ShowCmd(h) ==
    LET tx == TM_get(txdb, h)
    IN  /\ UNCHANGED <<txdb, keys>>
        /\ last' = Ret("show", h, FALSE,
                       IF tx = <<>> THEN "NotFound" ELSE "ok", tx, tx, 0, <<>>)
        /\ run' = run

\* a remove that reads the record and leaves it staged
RemoveCmdKeepsRecord(h) ==
    LET r == TM_remove(txdb, h)
    IN  /\ UNCHANGED <<txdb, keys>>
        /\ last' = Ret("remove", h, FALSE, r.status, r.tx, TM_get(txdb, h),
                       0, <<>>)
        /\ run' = run

RemoveCmd(h) ==
    LET r == TM_remove(txdb, h)
    IN  /\ txdb' = r.db
        /\ keys' = keys
        /\ last' = Ret("remove", h, FALSE, r.status, r.tx, TM_get(txdb, h),
                       0, <<>>)
        /\ run' = run

----------------------------------------------------------------------------
(* verify *)

\* the computed costs the remote node is tried with
Costs == {<<0>>, U64MaxDigits}

\* what the remote node answers to a verification request
RemoteReplies ==
    {[kind |-> "unavailable", cost |-> <<0>>],
     [kind |-> "invalid", cost |-> <<0>>]}
    \cup {[kind |-> "valid", cost |-> c] : c \in Costs}

\* TransactionManager::verify
TM_verify(db, h, max_cycles, reply) ==
    IF TM_get(db, h) = <<>> THEN [status |-> "NotFound", out |-> <<>>]
    ELSE IF reply.kind = "unavailable"
    THEN [status |-> "RemoteUnavailable", out |-> <<>>]
    ELSE IF reply.kind = "invalid"
    THEN [status |-> "RemoteRejected", out |-> <<>>]
    ELSE IF ~DigitsLeq(reply.cost, max_cycles)
    THEN [status |-> "BudgetExceeded", out |-> <<>>]
    ELSE [status |-> "ok", out |-> <<reply.cost>>]

\* a verify that hands over a budget of zero
VerifyCmdZeroBudget(h, reply) ==
    LET r == TM_verify(txdb, h, <<0>>, reply)
    IN  /\ UNCHANGED <<txdb, keys>>
        /\ last' = Ret("verify", h, FALSE, r.status, <<>>, TM_get(txdb, h),
                       0, r.out)
        /\ run' = run

\* verify(&tx_hash, std::u64::MAX, rpc_client)
VerifyCmd(h, reply) ==
    LET r == TM_verify(txdb, h, U64MaxDigits, reply)
    IN  /\ UNCHANGED <<txdb, keys>>
        /\ last' = Ret("verify", h, FALSE, r.status, <<>>, TM_get(txdb, h),
                       0, r.out)
        /\ run' = run

----------------------------------------------------------------------------
(* list *)

\* TransactionManager::list: every staged transaction once, in some order
TM_list(db) ==
    {[i \in 1..Cardinality(db) |-> s[i].value] :
        s \in {t \in [1..Cardinality(db) -> db] :
                  \A i, j \in 1..Cardinality(db) : t[i] = t[j] => i = j}}

\* every entry paired with the hash of the first transaction
ListViewFirstHash(txs) ==
    [i \in 1..Len(txs) |-> [tx |-> txs[i], tx_hash |-> TxHash(txs[1])]]

\* each transaction paired with the hash recomputed from it
ListView(txs) ==
    [i \in 1..Len(txs) |-> [tx |-> txs[i], tx_hash |-> TxHash(txs[i])]]

ListCmd(txs) ==
    /\ UNCHANGED <<txdb, keys>>
    /\ last' = Ret("list", NoHash, FALSE, "ok", <<>>, <<>>, 0, ListView(txs))
    /\ run' = run

----------------------------------------------------------------------------
(* Key provisioning, done outside the workbench *)

KeyAdd(k) ==
    /\ k \notin keys
    /\ keys' = keys \cup {k}
    /\ txdb' = txdb
    /\ last' = Ret("provision", NoHash, FALSE, "ok", <<>>, <<>>, 0, <<>>)
    /\ run' = run

KeyRemove(k) ==
    /\ k \in keys
    /\ keys' = keys \ {k}
    /\ txdb' = txdb
    /\ last' = Ret("provision", NoHash, FALSE, "ok", <<>>, <<>>, 0, <<>>)
    /\ run' = run

----------------------------------------------------------------------------
(* The workbench *)

\* no command is followed step by step
NoRun == <<>>

Init ==
    /\ txdb = {}
    /\ keys = {}
    /\ last = Ret("none", NoHash, FALSE, "ok", <<>>, <<>>, 0, <<>>)
    /\ run = NoRun

Next ==
    \/ \E a \in AddArgs, flag \in BOOLEAN : \E fault \in AddFaults(flag) :
          AddCmd(a.deps, a.inputs, a.outputs, flag, fault)
    \/ \E h \in HashArgs : SetWitnessCmd(h)
    \/ \E h \in HashArgs, fault \in SignFaults : SetWitnessesByKeysCmd(h, fault)
    \/ \E h \in HashArgs : ShowCmd(h)
    \/ \E h \in HashArgs : RemoveCmd(h)
    \/ \E h \in HashArgs, reply \in RemoteReplies : VerifyCmd(h, reply)
    \/ \E txs \in TM_list(txdb) : ListCmd(txs)
    \/ \E k \in AllKeys : KeyAdd(k)
    \/ \E k \in AllKeys : KeyRemove(k)

Spec == Init /\ [][Next]_vars

----------------------------------------------------------------------------
(* The dependency parser on its own: one --deps list is parsed, its        *)
(* OutPoints are written out and parsed again, and add is run on it        *)

\* the names add is given next to the list
DepInputNames == {<<"in1">>, <<"nope">>}

\* an OutPoint in the textual form <hex-hash>-<index>
Serialize(out_point) ==
    [i \in 1..Len(out_point.tx_hash) |-> HexLower[out_point.tx_hash[i] + 1]]
    \o <<"-">>
    \o [i \in 1..Len(out_point.index) |-> HexLower[out_point.index[i] + 1]]

NotParsed == [err |-> "pending", val |-> <<>>]

InitDeps ==
    /\ txdb = {}
    /\ keys = {}
    /\ last = Ret("none", NoHash, FALSE, "ok", <<>>, <<>>, 0, <<>>)
    /\ \E d \in DepLists, i \in DepInputNames :
          run = [pc |-> "given", deps |-> d, inputs |-> i,
                 parsed |-> NotParsed, again |-> NotParsed]

DepsParse ==
    /\ run.pc = "given"
    /\ run' = [run EXCEPT !.pc = "parsed", !.parsed = ParseDeps(run.deps)]
    /\ UNCHANGED <<txdb, keys, last>>

DepsReparse ==
    /\ run.pc = "parsed"
    /\ run.parsed.err = "none"
    /\ run' = [run EXCEPT
                  !.pc = "reparsed",
                  !.again = ParseDeps([i \in 1..Len(run.parsed.val) |->
                                          Serialize(run.parsed.val[i])])]
    /\ UNCHANGED <<txdb, keys, last>>

DepsAdd ==
    /\ last.op = "none"
    /\ AddDone(AddParsed(txdb, keys, ParseDeps(run.deps), run.inputs,
                         <<"out1">>, FALSE, "none"), FALSE)

NextDeps == DepsParse \/ DepsReparse \/ DepsAdd

SpecDeps == InitDeps /\ [][NextDeps]_vars

----------------------------------------------------------------------------
(* The handlers step by step: each with_rocksdb call opens a store handle, *)
(* runs its closure and releases the handle; two processes run one         *)
(* command each against the same store                                     *)

Procs == {"p1", "p2"}

\* the transaction staged before the processes start
StagedTx ==
    AddOutcome({}, {}, <<>>, <<"in1", "in2">>, <<"out1">>, FALSE, "none").tx[1]

StagedHash == TxHash(StagedTx)

\* the hash of a transaction that is not staged
MissingHash ==
    AddOutcome({}, {}, <<TokGood>>, <<>>, <<"out1">>, FALSE, "none").hash

StepHashes == {StagedHash, MissingHash}

Cmd(name, h, deps, inputs, outputs, flag, wit) ==
    [name |-> name, h |-> h, deps |-> deps, inputs |-> inputs,
     outputs |-> outputs, flag |-> flag, wit |-> wit]

\* the (input index, witness) arguments set-witness is tried with
WitnessArgs == {<<0, "w0">>, <<1, "w1">>}

\* the commands a process is started with
StepCmds ==
    {Cmd("add", NoHash, <<TokGood>>, <<"in1", "in2">>, <<"out1">>, TRUE, <<>>),
     Cmd("add", NoHash, <<>>, <<"in1">>, <<"out1">>, FALSE, <<>>),
     Cmd("add", NoHash, <<TokBadHex>>, <<"in1">>, <<"out1">>, FALSE, <<>>),
     Cmd("add", NoHash, <<>>, <<"in1", "nope">>, <<"out1">>, TRUE, <<>>),
     Cmd("add", NoHash, <<>>, <<"in1">>, <<"gone">>, FALSE, <<>>),
     Cmd("list", NoHash, <<>>, <<>>, <<>>, FALSE, <<>>)}
    \cup {Cmd(n, h, <<>>, <<>>, <<>>, FALSE, <<>>) :
            n \in {"set-witnesses-by-keys", "show", "remove", "verify"},
            h \in StepHashes}
    \cup {Cmd("set-witness", h, <<>>, <<>>, <<>>, FALSE, w) :
            h \in StepHashes, w \in WitnessArgs}

Idle == Cmd("idle", NoHash, <<>>, <<>>, <<>>, FALSE, <<>>)

\* the locals of a handler
NoLoc == [i |-> 0, deps |-> <<>>, inputs |-> <<>>, outputs |-> <<>>,
          ks |-> {}, tx |-> <<>>]

AtReturn == <<"return", "body">>

AtDone == <<"done", "body">>

\* where a handler starts
FirstPc(cmd) ==
    CASE cmd.name = "add" -> <<"parse", "body">>
      [] cmd.name = "set-witness" -> <<"null", "body">>
      [] cmd.name = "set-witnesses-by-keys" -> <<"sign", "open">>
      [] OTHER -> <<cmd.name, "open">>

\* the first statement of each closure
FirstPhase(stage) ==
    CASE stage = "sign" -> "keys"
      [] stage = "verify" -> "read"
      [] OTHER -> "body"

Start(p, cmd) ==
    /\ run[p].cmd = Idle
    /\ run' = [run EXCEPT ![p] =
                  [cmd |-> cmd, pc |-> FirstPc(cmd), open |-> 0,
                   acquired |-> 0, remote |-> 0, status |-> "ok",
                   loc |-> NoLoc, out |-> <<>>]]
    /\ UNCHANGED <<txdb, keys, last>>

\* with_rocksdb: the store is opened for the closure
Acquire(p) ==
    /\ run[p].pc[2] = "open"
    /\ run' = [run EXCEPT ![p].open = @ + 1,
                          ![p].acquired = @ + 1,
                          ![p].pc = <<@[1], FirstPhase(@[1])>>]
    /\ UNCHANGED <<txdb, keys, last>>

\* the lookups of add: one closure per name, inputs before outputs
EnterOutputs(r, i) ==
    IF i <= Len(r.cmd.outputs)
    THEN [r EXCEPT !.pc = <<"output", "open">>, !.loc.i = i]
    ELSE [r EXCEPT !.pc = <<"persist", "open">>]

EnterInputs(r, i) ==
    IF i <= Len(r.cmd.inputs)
    THEN [r EXCEPT !.pc = <<"input", "open">>, !.loc.i = i]
    ELSE EnterOutputs(r, 1)

\* what follows a closure that returned Ok
Advance(r) ==
    CASE r.pc[1] = "input" -> EnterInputs(r, r.loc.i + 1)
      [] r.pc[1] = "output" -> EnterOutputs(r, r.loc.i + 1)
      [] r.pc[1] = "persist" ->
            IF r.cmd.flag THEN [r EXCEPT !.pc = <<"sign", "open">>]
            ELSE [r EXCEPT !.pc = AtReturn]
      [] OTHER -> [r EXCEPT !.pc = AtReturn]

\* with_rocksdb: the closure has returned and the store is released;
\* an Err leaves the handler through `?`
Release(p) ==
    /\ run[p].pc[2] = "close"
    /\ run' = [run EXCEPT ![p] =
                  LET r == [run[p] EXCEPT !.open = @ - 1]
                  IN  IF r.status # "ok" THEN [r EXCEPT !.pc = AtReturn]
                      ELSE Advance(r)]
    /\ UNCHANGED <<txdb, keys, last>>

\* a closure ends with an error
Failed(r, status) == [r EXCEPT !.status = status, !.pc = <<@[1], "close">>]

Closing(r) == [r EXCEPT !.pc = <<@[1], "close">>]

ParseBody(p) ==
    /\ run[p].pc = <<"parse", "body">>
    /\ LET deps == ParsedDeps[run[p].cmd.deps]
       IN  run' = [run EXCEPT ![p] =
                      IF deps.err # "none"
                      THEN [@ EXCEPT !.status = deps.err, !.pc = AtReturn]
                      ELSE EnterInputs([@ EXCEPT !.loc.deps = deps.val], 1)]
    /\ UNCHANGED <<txdb, keys, last>>

InputBody(p) ==
    /\ run[p].pc = <<"input", "body">>
    /\ LET got == RegistryGet(InputRegistry, run[p].cmd.inputs[run[p].loc.i])
       IN  run' = [run EXCEPT ![p] =
                      IF got.err # "none" THEN Failed(@, got.err)
                      ELSE Closing([@ EXCEPT !.loc.inputs = @ \o got.val])]
    /\ UNCHANGED <<txdb, keys, last>>

OutputBody(p) ==
    /\ run[p].pc = <<"output", "body">>
    /\ LET got == RegistryGet(OutputRegistry, run[p].cmd.outputs[run[p].loc.i])
       IN  run' = [run EXCEPT ![p] =
                      IF got.err # "none" THEN Failed(@, got.err)
                      ELSE Closing([@ EXCEPT !.loc.outputs = @ \o got.val])]
    /\ UNCHANGED <<txdb, keys, last>>

\* a write into the table, and who made it
Written(op, p, tx) ==
    Ret(op, TxHash(tx), FALSE, "ok", <<tx>>, TM_get(txdb, TxHash(tx)), 1, <<p>>)

\* a persist whose closure also holds the signing closure
PersistBodyNested(p) ==
    /\ run[p].pc = <<"persist", "body">>
    /\ LET r  == run[p]
           tx == BuildTx(r.loc.deps, r.loc.inputs, r.loc.outputs,
                         EmptyWitnesses(r.loc.inputs))
       IN  \/ /\ run' = [run EXCEPT ![p] = Failed(@, "StoreUnavailable")]
              /\ UNCHANGED <<txdb, last>>
           \/ /\ txdb' = TM_add(txdb, tx)
              /\ last' = Written("add", p, tx)
              /\ run' = [run EXCEPT ![p] =
                            IF r.cmd.flag
                            THEN [@ EXCEPT !.loc.tx = <<tx>>,
                                           !.pc = <<"sign", "open">>]
                            ELSE Closing([@ EXCEPT !.loc.tx = <<tx>>])]
    /\ keys' = keys

\* the transaction is built and persisted
PersistBody(p) ==
    /\ run[p].pc = <<"persist", "body">>
    /\ LET r  == run[p]
           tx == BuildTx(r.loc.deps, r.loc.inputs, r.loc.outputs,
                         EmptyWitnesses(r.loc.inputs))
       IN  \/ /\ run' = [run EXCEPT ![p] = Failed(@, "StoreUnavailable")]
              /\ UNCHANGED <<txdb, last>>
           \/ /\ txdb' = TM_add(txdb, tx)
              /\ last' = Written("add", p, tx)
              /\ run' = [run EXCEPT ![p] = Closing([@ EXCEPT !.loc.tx = <<tx>>])]
    /\ keys' = keys

\* the hash the signing closure is given
SignHash(r) == IF r.cmd.name = "add" THEN TxHash(r.loc.tx[1]) ELSE r.cmd.h

\* KeyManager::list
SignKeys(p) ==
    /\ run[p].pc = <<"sign", "keys">>
    /\ \/ run' = [run EXCEPT ![p] = Failed(@, "StoreUnavailable")]
       \/ run' = [run EXCEPT ![p].loc.ks = keys, ![p].pc = <<"sign", "read">>]
    /\ UNCHANGED <<txdb, keys, last>>

\* set_witnesses_by_keys: the staged transaction is read
SignRead(p) ==
    /\ run[p].pc = <<"sign", "read">>
    /\ LET got == TM_get(txdb, SignHash(run[p]))
       IN  run' = [run EXCEPT ![p] =
                      IF got = <<>> THEN Failed(@, "NotFound")
                      ELSE [@ EXCEPT !.loc.tx = got,
                                     !.pc = IF Len(got[1].inputs) > 0
                                            THEN <<"sign", "remote">>
                                            ELSE <<"sign", "persist">>]]
    /\ UNCHANGED <<txdb, keys, last>>

\* set_witnesses_by_keys: the remote node is asked for the lock of each
\* input's cell
SignRemote(p) ==
    /\ run[p].pc = <<"sign", "remote">>
    /\ \/ run' = [run EXCEPT ![p] =
                     Failed([@ EXCEPT !.remote = @ + 1], "RemoteUnavailable")]
       \/ run' = [run EXCEPT ![p].remote = @ + 1,
                             ![p].pc = <<"sign", "persist">>]
    /\ UNCHANGED <<txdb, keys, last>>

\* the transaction read, with the witness list the listed keys give
Resigned(r) ==
    [r.loc.tx[1] EXCEPT !.witnesses =
        [i \in 1..Len(r.loc.tx[1].inputs) |->
            WitnessFor(r.loc.tx[1].inputs[i], r.loc.ks)]]

\* a write that keeps a populated witness of the record it finds
StepPersistMerge(db, tx) ==
    LET got == TM_get(db, TxHash(tx))
    IN  IF got = <<>> THEN TM_add(db, tx)
        ELSE TM_add(db, [tx EXCEPT !.witnesses =
                            [i \in 1..Len(tx.witnesses) |->
                                IF tx.witnesses[i] = EmptyWitness
                                THEN got[1].witnesses[i]
                                ELSE tx.witnesses[i]]])

\* set_witnesses_by_keys: the signed transaction is written over the
\* staged one, whatever the table holds by now
StepPersist(db, tx) == TM_add(db, tx)

SignPersist(p) ==
    /\ run[p].pc = <<"sign", "persist">>
    /\ LET tx == Resigned(run[p])
       IN  \/ /\ run' = [run EXCEPT ![p] = Failed(@, "StoreUnavailable")]
              /\ UNCHANGED <<txdb, last>>
           \/ /\ txdb' = StepPersist(txdb, tx)
              /\ last' = Written("set-witnesses-by-keys", p, tx)
              /\ run' = [run EXCEPT ![p] = Closing([@ EXCEPT !.loc.tx = <<tx>>])]
    /\ keys' = keys

\* show: TransactionManager::get
ShowBody(p) ==
    /\ run[p].pc = <<"show", "body">>
    /\ LET got == TM_get(txdb, run[p].cmd.h)
       IN  run' = [run EXCEPT ![p] =
                      IF got = <<>> THEN Failed(@, "NotFound")
                      ELSE Closing([@ EXCEPT !.loc.tx = got])]
    /\ UNCHANGED <<txdb, keys, last>>

\* remove: TransactionManager::remove
RemoveBody(p) ==
    /\ run[p].pc = <<"remove", "body">>
    /\ LET r == TM_remove(txdb, run[p].cmd.h)
       IN  /\ txdb' = r.db
           /\ run' = [run EXCEPT ![p] =
                         IF r.status # "ok" THEN Failed(@, r.status)
                         ELSE Closing([@ EXCEPT !.loc.tx = r.tx])]
           /\ last' = IF r.status # "ok" THEN last
                      ELSE Ret("remove", run[p].cmd.h, FALSE, "ok", <<>>,
                               r.tx, 1, <<p>>)
    /\ keys' = keys

\* verify: the staged transaction is read
VerifyRead(p) ==
    /\ run[p].pc = <<"verify", "read">>
    /\ LET got == TM_get(txdb, run[p].cmd.h)
       IN  run' = [run EXCEPT ![p] =
                      IF got = <<>> THEN Failed(@, "NotFound")
                      ELSE [@ EXCEPT !.loc.tx = got,
                                     !.pc = <<"verify", "remote">>]]
    /\ UNCHANGED <<txdb, keys, last>>

\* verify: one round trip to the remote node, inside the closure
VerifyRemote(p) ==
    /\ run[p].pc = <<"verify", "remote">>
    /\ \E reply \in RemoteReplies :
          LET r == TM_verify({[key |-> run[p].cmd.h, value |-> run[p].loc.tx[1]]},
                             run[p].cmd.h, U64MaxDigits, reply)
          IN  run' = [run EXCEPT ![p] =
                         IF r.status # "ok"
                         THEN Failed([@ EXCEPT !.remote = @ + 1], r.status)
                         ELSE Closing([@ EXCEPT !.remote = @ + 1,
                                                !.out = r.out])]
    /\ UNCHANGED <<txdb, keys, last>>

\* list: TransactionManager::list
ListBody(p) ==
    /\ run[p].pc = <<"list", "body">>
    /\ \E txs \in TM_list(txdb) :
          run' = [run EXCEPT ![p] = Closing([@ EXCEPT !.out = ListView(txs)])]
    /\ UNCHANGED <<txdb, keys, last>>

\* a set-witness that writes the witness it is given into the record
SetWitnessStepWrites(p) ==
    /\ run[p].pc = <<"null", "body">>
    /\ LET got == TM_get(txdb, run[p].cmd.h)
           i   == run[p].cmd.wit[1] + 1
       IN  /\ txdb' = IF got = <<>> THEN txdb
                      ELSE TM_add(txdb, [got[1] EXCEPT !.witnesses[i] =
                                            <<run[p].cmd.wit[2]>>])
           /\ run' = [run EXCEPT ![p].out = <<"null">>,
                                 ![p].acquired = @ + 1,
                                 ![p].pc = AtReturn]
    /\ UNCHANGED <<keys, last>>

\* ("set-witness", Some(_m)) => Ok("null")
SetWitnessStep(p) ==
    /\ run[p].pc = <<"null", "body">>
    /\ run' = [run EXCEPT ![p].out = <<"null">>, ![p].pc = AtReturn]
    /\ UNCHANGED <<txdb, keys, last>>

\* the handler returns: the rendered transaction, or the error
Return(p) ==
    /\ run[p].pc = AtReturn
    /\ run' = [run EXCEPT ![p] =
                  [@ EXCEPT !.pc = AtDone,
                            !.loc = NoLoc,
                            !.out = IF @ # <<>> \/ run[p].status # "ok"
                                    THEN @ ELSE run[p].loc.tx]]
    /\ UNCHANGED <<txdb, keys, last>>

\* a key is stored while the processes run
StepKeyAdd(k) ==
    /\ k \notin keys
    /\ keys' = keys \cup {k}
    /\ UNCHANGED <<txdb, last, run>>

InitSteps ==
    /\ txdb = {[key |-> StagedHash, value |-> StagedTx]}
    /\ keys = {}
    /\ last = Ret("none", NoHash, FALSE, "ok", <<>>, <<>>, 0, <<>>)
    /\ run = [p \in Procs |->
                [cmd |-> Idle, pc |-> AtDone, open |-> 0, acquired |-> 0,
                 remote |-> 0, status |-> "ok", loc |-> NoLoc, out |-> <<>>]]

NextSteps ==
    \/ \E p \in Procs, cmd \in StepCmds : Start(p, cmd)
    \/ \E p \in Procs : Acquire(p)
    \/ \E p \in Procs : Release(p)
    \/ \E p \in Procs : ParseBody(p)
    \/ \E p \in Procs : InputBody(p)
    \/ \E p \in Procs : OutputBody(p)
    \/ \E p \in Procs : PersistBody(p)
    \/ \E p \in Procs : SignKeys(p)
    \/ \E p \in Procs : SignRead(p)
    \/ \E p \in Procs : SignRemote(p)
    \/ \E p \in Procs : SignPersist(p)
    \/ \E p \in Procs : ShowBody(p)
    \/ \E p \in Procs : RemoveBody(p)
    \/ \E p \in Procs : VerifyRead(p)
    \/ \E p \in Procs : VerifyRemote(p)
    \/ \E p \in Procs : ListBody(p)
    \/ \E p \in Procs : SetWitnessStep(p)
    \/ \E p \in Procs : Return(p)
    \/ \E k \in AllKeys : StepKeyAdd(k)

SpecSteps == InitSteps /\ [][NextSteps]_vars

----------------------------------------------------------------------------
(* Properties *)

IsAddStep == last'.op = "add"

\* C1: every failed add leaves the staged-transaction table as it was.
C1_FailedAddLeavesTableUnchanged ==
    [][(IsAddStep /\ last'.status # "ok") => txdb' = txdb]_vars

\* the argument lists that name an input or an output no registry holds
UnknownNameArgs ==
    {a \in AddArgs :
        \/ \E i \in 1..Len(a.inputs) : a.inputs[i] \notin DOMAIN InputRegistry
        \/ \E i \in 1..Len(a.outputs) : a.outputs[i] \notin DOMAIN OutputRegistry}

\* C2: an add that names an unknown input or output fails, writes nothing
\* to the staged-transaction table and leaves the table as it was: no add
\* step that succeeds, writes or changes the table is the step of an add
\* with such arguments.
C2_UnknownNameAddWritesNothing ==
    [][(/\ IsAddStep
        /\ \/ last'.status = "ok"
           \/ last'.writes # 0
           \/ txdb' # txdb)
       => ~ \E a \in UnknownNameArgs, flag \in BOOLEAN :
              \E fault \in AddFaults(flag) :
                  AddCmd(a.deps, a.inputs, a.outputs, flag, fault)]_vars

C2_Witness ==
    /\ last.op = "add"
    /\ last.status = "UnknownReference"
    /\ txdb # {}

\* C3: every staged record, and every transaction a command returns, has
\* exactly one witness per input.
C3_WitnessPerInput ==
    /\ \A e \in txdb : Len(e.value.witnesses) = Len(e.value.inputs)
    /\ \A i \in 1..Len(last.tx) :
          Len(last.tx[i].witnesses) = Len(last.tx[i].inputs)

C3_Witness ==
    /\ last.op = "set-witnesses-by-keys"
    /\ last.status = "ok"
    /\ Len(last.tx[1].inputs) = 2
    /\ last.tx[1].witnesses # EmptyWitnesses(last.tx[1].inputs)
    /\ \E e \in txdb : Len(e.value.inputs) = 0

IsSignStep == last'.op = "set-witnesses-by-keys"

SameContent(t1, t2) ==
    /\ t1.deps = t2.deps
    /\ t1.inputs = t2.inputs
    /\ t1.outputs = t2.outputs

\* C4: a successful set-witnesses-by-keys changes only the witness list of
\* the target record: its dependencies, inputs, outputs and hash stay, it
\* stays under the same key, and no other record is created, changed or
\* deleted.
C4_SigningChangesOnlyWitnesses ==
    [][(IsSignStep /\ last'.status = "ok") =>
        /\ TableKeys(txdb') = TableKeys(txdb)
        /\ Cardinality(txdb') = Cardinality(txdb)
        /\ \A e \in txdb :
              IF e.key = last'.hash
              THEN \E f \in txdb' :
                      /\ f.key = e.key
                      /\ SameContent(f.value, e.value)
                      /\ TxHash(f.value) = TxHash(e.value)
                      /\ f.value = last'.tx[1]
              ELSE e \in txdb']_vars

C4_Witness ==
    /\ last.op = "set-witnesses-by-keys"
    /\ last.status = "ok"
    /\ last.prior # last.tx
    /\ Cardinality(txdb) = 2

StripWitnesses(tx) == [tx EXCEPT !.witnesses = <<>>]

\* C5: every staged record is stored under the hash of its own content,
\* witnesses excluded, and no two records share a hash.
C5_KeyIsContentHash ==
    /\ \A e \in txdb :
          /\ e.key = TxHash(e.value)
          /\ e.key = TxHash(StripWitnesses(e.value))
    /\ \A e, f \in txdb : e.key = f.key => e = f
    /\ \A e, f \in txdb : SameContent(e.value, f.value) => e = f

C5_Witness ==
    /\ Cardinality(txdb) = 2
    /\ \E e \in txdb : e.value.witnesses # EmptyWitnesses(e.value.inputs)
    /\ last.op = "verify"

AllEmpty(ws) == \A i \in 1..Len(ws) : ws[i] = EmptyWitness

\* C7: the transaction a successful add returns is the record stored under
\* its hash when add returns, unsigned with one empty witness per input
\* without the signing flag, and a show of that hash right after returns
\* the same transaction.
C7_AddReturnsStoredRecord ==
    [][/\ (IsAddStep /\ last'.status = "ok") =>
            /\ Len(last'.tx) = 1
            /\ last'.hash = TxHash(last'.tx[1])
            /\ [key |-> last'.hash, value |-> last'.tx[1]] \in txdb'
            /\ ~last'.flag =>
                  /\ Len(last'.tx[1].witnesses) = Len(last'.tx[1].inputs)
                  /\ AllEmpty(last'.tx[1].witnesses)
       /\ (/\ last.op = "add"
           /\ last.status = "ok"
           /\ last'.op = "show"
           /\ last'.hash = last.hash)
          => (last'.status = "ok" /\ last'.tx = last.tx)]_vars

C7_Witness ==
    /\ last.op = "add"
    /\ last.status = "ok"
    /\ last.flag
    /\ ~AllEmpty(last.tx[1].witnesses)
    /\ [key |-> last.hash, value |-> last.tx[1]] \in txdb

\* C8: an add whose hash is already staged replaces that record: the table
\* holds as many records as before, under the same hashes, and the record
\* under the hash is the one this add built, with every witness empty
\* when the signing flag is absent.
C8_AddOverwrites ==
    [][(IsAddStep /\ last'.status = "ok" /\ last'.hash \in TableKeys(txdb)) =>
        /\ Cardinality(txdb') = Cardinality(txdb)
        /\ TableKeys(txdb') = TableKeys(txdb)
        /\ \A e \in txdb' :
              e.key = last'.hash =>
                  /\ e.value = last'.tx[1]
                  /\ ~last'.flag => AllEmpty(e.value.witnesses)
        /\ \A e \in txdb : e.key # last'.hash => e \in txdb']_vars

C8_Witness ==
    /\ last.op = "add"
    /\ last.status = "ok"
    /\ ~last.flag
    /\ Len(last.prior) = 1
    /\ ~AllEmpty(last.prior[1].witnesses)
    /\ Cardinality(txdb) = 2

\* C9: list returns one entry per staged record and nothing else, and the
\* hash paired with each entry is the key the record is staged under.
C9_ListIsTheTable ==
    last.op = "list" =>
        /\ Len(last.out) = Cardinality(txdb)
        /\ {[key |-> last.out[i].tx_hash, value |-> last.out[i].tx] :
               i \in 1..Len(last.out)} = txdb

C9_Witness ==
    /\ last.op = "list"
    /\ Len(last.out) = 2
    /\ last.out[1].tx_hash # last.out[2].tx_hash
    /\ \E i \in 1..2 : ~AllEmpty(last.out[i].tx.witnesses)

\* the table with the witnesses of the record under h emptied
Unsigned(db, h) ==
    {[key |-> e.key,
      value |-> IF e.key = h
                THEN [e.value EXCEPT !.witnesses = EmptyWitnesses(e.value.inputs)]
                ELSE e.value] : e \in db}

\* C10: set-witnesses-by-keys replaces the witnesses: its result is the
\* one it gives on the unsigned record, a second call with the same keys
\* changes nothing, and with no key stored every witness is empty.
C10_SigningOverwrites ==
    [][(IsSignStep /\ last'.status = "ok") =>
        /\ SignStep(Unsigned(txdb, last'.hash), keys, last'.hash, "none").tx
              = last'.tx
        /\ SignStep(txdb', keys', last'.hash, "none").tx = last'.tx
        /\ SignStep(txdb', keys', last'.hash, "none").db = txdb'
        /\ keys = {} => AllEmpty(last'.tx[1].witnesses)]_vars

C10_Witness ==
    /\ last.op = "set-witnesses-by-keys"
    /\ last.status = "ok"
    /\ ~AllEmpty(last.prior[1].witnesses)
    /\ AllEmpty(last.tx[1].witnesses)

Populated(w) == w # EmptyWitness

KeyMatches(input, ks) == \E k \in ks : KeyLock(k) = LiveCellLock(input)

\* C11: after a successful set-witnesses-by-keys the witness of input i is
\* populated exactly when a stored key matches the lock of input i; an
\* input without a matching key gets an empty witness and the command
\* still succeeds.
C11_PopulatedIffKeyMatches ==
    [][(IsSignStep /\ last'.status = "ok") =>
        LET tx == last'.tx[1]
        IN  /\ Len(tx.witnesses) = Len(tx.inputs)
            /\ \A i \in 1..Len(tx.inputs) :
                  Populated(tx.witnesses[i]) <=> KeyMatches(tx.inputs[i], keys)
            /\ [key |-> last'.hash, value |-> tx] \in txdb']_vars

C11_Witness ==
    /\ last.op = "set-witnesses-by-keys"
    /\ last.status = "ok"
    /\ Len(last.tx[1].inputs) = 2
    /\ Populated(last.tx[1].witnesses[1])
    /\ ~Populated(last.tx[1].witnesses[2])

\* C12: verify, show and list leave the staged-transaction table as it
\* was, whatever they return.
C12_ReadOnlyCommands ==
    [][last'.op \in {"verify", "show", "list"} => txdb' = txdb]_vars

C12_Witness ==
    /\ last.op = "verify"
    /\ last.status = "RemoteRejected"
    /\ \E e \in txdb : ~AllEmpty(e.value.witnesses)

\* computed costs from 0 to u64::MAX
CostSamples ==
    {<<0>>, <<1>>, <<4, 2, 9, 4, 9, 6, 7, 2, 9, 6>>,
     <<9, 2, 2, 3, 3, 7, 2, 0, 3, 6, 8, 5, 4, 7, 7, 5, 8, 0, 8>>,
     <<1, 8, 4, 4, 6, 7, 4, 4, 0, 7, 3, 7, 0, 9, 5, 5, 1, 6, 1, 4>>,
     U64MaxDigits}

\* C13: verify of an unstaged hash fails with NotFound; of a staged hash
\* it fails with RemoteUnavailable when the remote node cannot be reached
\* and with RemoteRejected when the node finds the transaction invalid,
\* and otherwise reports the computed cost; it never fails with
\* BudgetExceeded, for any cost up to u64::MAX.
C13_VerifyOutcomes ==
    [][last'.op = "verify" =>
        /\ last'.status # "BudgetExceeded"
        /\ \A h \in HashArgs, reply \in RemoteReplies :
              VerifyCmd(h, reply) =>
                  IF h \notin TableKeys(txdb)
                  THEN last'.status = "NotFound"
                  ELSE CASE reply.kind = "unavailable" ->
                               last'.status = "RemoteUnavailable"
                         [] reply.kind = "invalid" ->
                               last'.status = "RemoteRejected"
                         [] reply.kind = "valid" ->
                               /\ last'.status = "ok"
                               /\ last'.out = <<reply.cost>>
        /\ \A c \in CostSamples :
              LET r == TM_verify(txdb, last'.hash, U64MaxDigits,
                                 [kind |-> "valid", cost |-> c])
              IN  last'.hash \in TableKeys(txdb) =>
                      (r.status = "ok" /\ r.out = <<c>>)]_vars

C13_Witness ==
    /\ last.op = "verify"
    /\ last.status = "ok"
    /\ last.out = <<U64MaxDigits>>

\* C17: a successful add writes the staged-transaction table once without
\* the signing flag and twice with it; a failed add does not write.
C17_AddWriteCount ==
    [][IsAddStep =>
        last'.writes = IF last'.status # "ok" THEN 0
                       ELSE IF last'.flag THEN 2 ELSE 1]_vars

----------------------------------------------------------------------------
(* Dependency tokens *)

DashCount(t) == Cardinality({i \in 1..Len(t) : t[i] = "-"})

FirstDash(t) == CHOOSE i \in 1..Len(t) : t[i] = "-" /\ \A j \in 1..(i - 1) : t[j] # "-"

HashText(t) == SubSeq(t, 1, FirstDash(t) - 1)

IndexText(t) == SubSeq(t, FirstDash(t) + 1, Len(t))

HasHexPrefix(h) == Len(h) >= 2 /\ h[1] = "0" /\ h[2] \in {"x", "X"}

\* a fixed-width hex hash behind at most one prefix
IsHashText(h) ==
    LET body == IF HasHexPrefix(h) THEN SubSeq(h, 3, Len(h)) ELSE h
    IN  Len(body) = HashHexLen /\ \A i \in 1..Len(body) : body[i] \in HexDigits

\* the digits of an index text, its sign dropped
IndexDigits(x) ==
    LET body == IF Len(x) >= 1 /\ x[1] = "+" THEN Tail(x) ELSE x
    IN  [i \in 1..Len(body) |-> DecVal(body[i])]

\* a decimal number in 0..2^32-1
IsU32Text(x) ==
    LET body == IF Len(x) >= 1 /\ x[1] = "+" THEN Tail(x) ELSE x
    IN  /\ Len(body) >= 1
        /\ \A i \in 1..Len(body) : body[i] \in DecDigits
        /\ DigitsLeq(IndexDigits(x), U32MaxDigits)

\* the error a token is rejected with, "none" for an accepted token
Expected(t) ==
    IF DashCount(t) # 1 THEN "MalformedDependency"
    ELSE IF ~IsHashText(HashText(t)) THEN "InvalidHash"
    ELSE IF ~IsU32Text(IndexText(t)) THEN "InvalidIndex"
    ELSE "none"

\* the error of the first rejected token of a list
ExpectedOfList(ts) ==
    LET bad == {i \in 1..Len(ts) : Expected(ts[i]) # "none"}
    IN  IF bad = {} THEN "none"
        ELSE Expected(ts[CHOOSE i \in bad : \A j \in bad : i <= j])

ParseErrors == {"MalformedDependency", "InvalidHash", "InvalidIndex"}

\* C14: a dependency token is accepted exactly when it has two parts, a
\* fixed-width hex hash behind at most one 0x/0X prefix, and a u32 index;
\* the rejections are classified part count first, then hash, then index;
\* a rejected token fails add with that error before any lookup or write,
\* so the table stays as it was and nothing is written.
C14_DepTokenAcceptance ==
    LET want == ExpectedOfList(run.deps)
    IN  /\ run.pc \in {"parsed", "reparsed"} => run.parsed.err = want
        /\ \A i \in 1..Len(run.deps) :
              ParseDep(run.deps[i]).err = Expected(run.deps[i])
        /\ last.op = "add" =>
              /\ want # "none" =>
                    /\ last.status = want
                    /\ txdb = {}
                    /\ last.writes = 0
                    /\ last.tx = <<>>
              /\ want = "none" =>
                    /\ last.status \notin ParseErrors
                    /\ last.status = "ok" <=> run.inputs = <<"in1">>
                    /\ last.status = "ok" =>
                          /\ txdb = {[key |-> last.hash, value |-> last.tx[1]]}
                          /\ last.tx[1].deps = ParseDeps(run.deps).val

C14_Witness ==
    /\ last.op = "add"
    /\ last.status = "InvalidHash"
    /\ run.deps = << <<"z", "z", "-", "x">> >>
    /\ run.inputs = <<"nope">>
    /\ run.pc = "parsed"
    /\ run.parsed.err = "InvalidHash"
    /\ txdb = {}

\* the token without its prefix
Bare(t) == IF HasHexPrefix(t) THEN SubSeq(t, 3, Len(t)) ELSE t

SameNumber(a, b) == DigitsLeq(a, b) /\ DigitsLeq(b, a)

\* C15: a valid token, written out again from its OutPoint and parsed
\* again, gives the same OutPoint; with a 0x prefix, with a 0X prefix and
\* without a prefix it parses to the same OutPoint; and the parsed index
\* is the decimal value of the index text.
C15_DepTokenRoundTrip ==
    /\ run.pc = "reparsed" =>
          /\ run.again.err = "none"
          /\ run.again.val = run.parsed.val
    /\ (run.pc \in {"parsed", "reparsed"} /\ run.parsed.err = "none") =>
          /\ Len(run.parsed.val) = Len(run.deps)
          /\ \A i \in 1..Len(run.deps) :
                LET t == run.deps[i]
                    op == [err |-> "none", val |-> run.parsed.val[i]]
                IN  /\ ParseDep(Bare(t)) = op
                    /\ ParseDep(<<"0", "x">> \o Bare(t)) = op
                    /\ ParseDep(<<"0", "X">> \o Bare(t)) = op
                    /\ SameNumber(op.val.index, IndexDigits(IndexText(t)))
                    /\ ParseDep(Serialize(op.val)) = op

C15_Witness ==
    /\ run.pc = "reparsed"
    /\ run.deps = << <<"0", "X">> \o MixedHex \o <<"-", "0", "0", "7">> >>
    /\ run.again.err = "none"
    /\ run.again.val[1].index = <<7>>
    /\ run.again.val[1].tx_hash = [i \in 1..HashHexLen |-> HexVal(MixedHex[i])]

----------------------------------------------------------------------------
(* Store handles, interleaved signing, set-witness *)

\* the process is inside a with_rocksdb closure
InClosure(r) ==
    /\ r.pc[1] \notin {"parse", "null", "return", "done"}
    /\ r.pc[2] # "open"

\* the with_rocksdb calls of a successful add
AddAcquisitions(cmd) ==
    Len(cmd.inputs) + Len(cmd.outputs) + 1 + (IF cmd.flag THEN 1 ELSE 0)

\* C16: a handler has one store handle open inside a with_rocksdb closure
\* and none outside, so never more than one, and none when it returns,
\* with or without an error; a successful add has acquired one handle per
\* input name, one per output name, one for the persist and one for the
\* signing, each released before the next.
C16_ScopedHandles ==
    \A p \in Procs :
        LET r == run[p]
        IN  /\ r.open = IF InClosure(r) THEN 1 ELSE 0
            /\ r.open <= 1
            /\ r.pc \in {AtReturn, AtDone} => r.open = 0
            /\ (r.pc = AtDone /\ r.cmd.name = "add" /\ r.status = "ok") =>
                  r.acquired = AddAcquisitions(r.cmd)
            /\ (r.pc = AtDone /\ r.cmd.name = "add") =>
                  r.acquired <= AddAcquisitions(r.cmd)
            /\ (r.pc = AtDone /\ r.status \in ParseErrors) => r.acquired = 0
            /\ (r.pc = AtDone /\ r.cmd.name \in
                    {"set-witnesses-by-keys", "show", "remove", "verify",
                     "list"}) => r.acquired = 1

C16_Witness ==
    /\ run["p1"].pc = AtDone
    /\ run["p1"].cmd.name = "add"
    /\ run["p1"].cmd.flag
    /\ run["p1"].status = "ok"
    /\ run["p1"].acquired = 5
    /\ run["p1"].open = 0
    /\ run["p2"].pc = AtDone
    /\ run["p2"].cmd.name = "verify"
    /\ run["p2"].status = "RemoteUnavailable"
    /\ run["p2"].acquired = 1
    /\ run["p2"].open = 0

SignStaged ==
    Cmd("set-witnesses-by-keys", StagedHash, <<>>, <<>>, <<>>, FALSE, <<>>)

BothSign == \A p \in Procs : run[p].cmd = SignStaged

\* C18: when both processes sign the same staged hash, with their reads
\* and writes interleaved in any order, neither ends with a failure the
\* interleaving caused (only a failed store or remote step fails one),
\* the record is the one written last, and in every state each record
\* has one witness per input and is the only record under its hash.
C18_InterleavedSigning ==
    /\ \A e \in txdb :
          /\ e.key = TxHash(e.value)
          /\ Len(e.value.witnesses) = Len(e.value.inputs)
          /\ \A f \in txdb : f.key = e.key => f = e
    /\ last.op \in {"add", "set-witnesses-by-keys"} =>
          TM_get(txdb, last.hash) = last.tx
    /\ last.op = "remove" => TM_get(txdb, last.hash) = <<>>
    /\ BothSign =>
          /\ TM_get(txdb, StagedHash) # <<>>
          /\ \A p \in Procs :
                /\ run[p].status \in
                      {"ok", "StoreUnavailable", "RemoteUnavailable"}
                /\ (run[p].pc = AtDone /\ run[p].status = "ok") =>
                      /\ Len(run[p].out) = 1
                      /\ SameContent(run[p].out[1], StagedTx)
                      /\ Len(run[p].out[1].witnesses) = Len(StagedTx.inputs)
          /\ (\A p \in Procs : run[p].pc = AtDone /\ run[p].status = "ok") =>
                /\ last.op = "set-witnesses-by-keys"
                /\ TM_get(txdb, StagedHash) = run[last.out[1]].out

C18_Witness ==
    /\ BothSign
    /\ \A p \in Procs : run[p].pc = AtDone /\ run[p].status = "ok"
    /\ last.out = <<"p1">>
    /\ run["p2"].out[1].witnesses[1] = SignedWitness("K1")
    /\ run["p1"].out[1].witnesses[1] = EmptyWitness
    /\ TM_get(txdb, StagedHash) = run["p1"].out

====
